---- MODULE Spec2Model ----
(***************************************************************************)
(* Model of src/Hello.py: the stored-procedure generator                   *)
(* (default_value, generate_stored_procedure) and the inputs a caller may  *)
(* hand to it.                                                             *)
(*                                                                         *)
(* Representation of Python strings:                                       *)
(*   - a string the code inspects (the `in` substring test on a column     *)
(*     type, str.replace on the target table) is a sequence of             *)
(*     one-character strings, so the test is computed character by         *)
(*     character;                                                          *)
(*   - a string the code only pastes into the output (column names, the    *)
(*     source table, the SQL boilerplate) is a TLA+ string, concatenated   *)
(*     with \o;                                                            *)
(*   - a text that may contain "\n" is the sequence of its lines (the      *)
(*     split of the text at "\n"); the returned script is such a text.     *)
(***************************************************************************)
EXTENDS Integers, Sequences, FiniteSets, TLC

VARIABLES
    pc,            \* "call_default_value" | "default_value_returned" |
                   \* "call_generate" | "generate_returned" | "generate_raised"
    data_type,     \* argument of default_value (sequence of characters)
    target_table,  \* argument of generate_stored_procedure (sequence of characters)
    source_table,  \* argument of generate_stored_procedure (string)
    columns,       \* argument of generate_stored_procedure: sequence of [name, type]
    dv_ret,        \* value returned by default_value, "None" before the return
    script,        \* text returned by generate_stored_procedure (lines), <<>> if none
    exc            \* exception raised by generate_stored_procedure, "None" if none

vars == <<pc, data_type, target_table, source_table, columns, dv_ret, script, exc>>

----------------------------------------------------------------------------
(* Bounds of the model *)

\* longest columns sequence handed to the generator
MaxCols == 2

\* number of fragments a type string given to default_value is made of
MaxTypeTokens == 2

----------------------------------------------------------------------------
(* Python string primitives *)

\* sub in s
Contains(sub, s) ==
    \E i \in 1..(Len(s) - Len(sub) + 1) : SubSeq(s, i, i + Len(sub) - 1) = sub

\* s.replace(old, new): left to right, non-overlapping occurrences of old
RECURSIVE Replace(_, _, _)
Replace(s, old, new) ==
    IF Len(s) < Len(old) THEN s
    ELSE IF SubSeq(s, 1, Len(old)) = old
         THEN new \o Replace(SubSeq(s, Len(old) + 1, Len(s)), old, new)
         ELSE <<s[1]>> \o Replace(Tail(s), old, new)

\* the characters of s pasted into an output string
RECURSIVE Str(_)
Str(s) == IF s = <<>> THEN "" ELSE s[1] \o Str(Tail(s))

\* (tail + "\n" + head).join(items), as the lines of the resulting text
Join(tail, head, items) ==
    IF items = <<>> THEN <<"">>
    ELSE [i \in 1..Len(items) |->
            (IF i = 1 THEN "" ELSE head) \o items[i]
                \o (IF i < Len(items) THEN tail ELSE "")]

\* (prefix + "{}" + suffix).format(text), as the lines of the resulting text
Format(prefix, text, suffix) ==
    [i \in 1..Len(text) |->
        (IF i = 1 THEN prefix ELSE "") \o text[i]
            \o (IF i = Len(text) THEN suffix ELSE "")]

\* "\n".join(texts), as the lines of the resulting text
RECURSIVE JoinNewline(_)
JoinNewline(texts) ==
    IF texts = <<>> THEN <<>> ELSE Head(texts) \o JoinNewline(Tail(texts))

----------------------------------------------------------------------------
(* String literals the code tests for *)

kw_uniqueidentifier ==
    <<"u","n","i","q","u","e","i","d","e","n","t","i","f","i","e","r">>
kw_int      == <<"i","n","t">>
kw_decimal  == <<"d","e","c","i","m","a","l">>
kw_bit      == <<"b","i","t">>
kw_nvarchar == <<"n","v","a","r","c","h","a","r">>
kw_dbo      == <<"[","d","b","o","]",".","[">>
kw_bracket  == <<"]">>

NilGuid == "'00000000-0000-0000-0000-000000000000'"

----------------------------------------------------------------------------
(* default_value *)

default_value_nobit(t) ==
    IF Contains(kw_uniqueidentifier, t) THEN NilGuid
    ELSE IF Contains(kw_int, t) \/ Contains(kw_decimal, t) THEN "0"
    ELSE "''"

default_value(t) ==
    IF Contains(kw_uniqueidentifier, t) THEN NilGuid
    ELSE IF Contains(kw_int, t) \/ Contains(kw_decimal, t) THEN "0"
    ELSE IF Contains(kw_bit, t) THEN "0"
    ELSE "''"

----------------------------------------------------------------------------
(* generate_stored_procedure: names and clauses *)

procedure_name_dbo_dot(t) ==
    "stp_sync_" \o Str(Replace(Replace(t, <<"[","d","b","o","]",".">>, <<>>),
                               kw_bracket, <<>>))

procedure_name(t) ==
    "stp_sync_" \o Str(Replace(Replace(t, kw_dbo, <<>>), kw_bracket, <<>>))

\* not columns
NoColumns(cols) == cols = <<>>

RaisedException_IndexError == "IndexError"

\* the exception of the raise statement
RaisedException == "ValueError"

first_column_name_last(cols) == cols[Len(cols)].name

first_column_name(cols) == cols[1].name

set_statement_coalesce(col) ==
    "target." \o col.name \o " = COALESCE(src." \o col.name \o ", "
        \o default_value(col.type) \o ")"

\* one element of the list joined into set_statements
set_statement(col) ==
    IF ~Contains(kw_uniqueidentifier, col.type)
    THEN "target." \o col.name \o " = COALESCE(src." \o col.name \o ", "
            \o default_value(col.type) \o ")"
    ELSE "target." \o col.name \o " = ISNULL(src." \o col.name
            \o ", '00000000-0000-0000-0000-000000000000')"

set_statements(cols) ==
    Join(",", "        ", [i \in 1..Len(cols) |-> set_statement(cols[i])])

collate_suffix_varchar(col) ==
    IF Contains(<<"v","a","r","c","h","a","r">>, col.type)
    THEN " COLLATE DATABASE_DEFAULT" ELSE ""

\* the {2} argument of a where condition
collate_suffix(col) ==
    IF Contains(kw_nvarchar, col.type) THEN " COLLATE DATABASE_DEFAULT" ELSE ""

where_condition_src_raw(col) ==
    "COALESCE(target." \o col.name \o ", " \o default_value(col.type)
        \o ") <> src." \o col.name \o collate_suffix(col)

\* one element of the list joined into where_conditions
where_condition(col) ==
    "COALESCE(target." \o col.name \o ", " \o default_value(col.type)
        \o ") <> COALESCE(src." \o col.name \o ", " \o default_value(col.type)
        \o ")" \o collate_suffix(col)

where_conditions(cols) ==
    Join(" OR", "        ", [i \in 1..Len(cols) |-> where_condition(cols[i])])

RECURSIVE DistinctNames(_, _)
DistinctNames(cols, seen) ==
    IF cols = <<>> THEN <<>>
    ELSE IF Head(cols).name \in seen THEN DistinctNames(Tail(cols), seen)
    ELSE <<Head(cols).name>>
            \o DistinctNames(Tail(cols), seen \cup {Head(cols).name})

insert_columns_distinct(cols) == Join(",", "        ", DistinctNames(cols, {}))

\* the joined column names of the INSERT column list
insert_columns(cols) ==
    Join(",", "        ", [i \in 1..Len(cols) |-> cols[i].name])

\* one element of the list joined into the SELECT list
select_value(col) ==
    IF Contains(kw_uniqueidentifier, col.type)
    THEN "ISNULL(src." \o col.name \o ", '00000000-0000-0000-0000-000000000000')"
    ELSE "COALESCE(src." \o col.name \o ", " \o default_value(col.type) \o ")"

select_values(cols) ==
    Join(",", "        ", [i \in 1..Len(cols) |-> select_value(cols[i])])

----------------------------------------------------------------------------
(* generate_stored_procedure: the script list, one text per element *)

\* "USE [DW]" .. "    SET NOCOUNT ON;"
script_header(t) ==
    << <<"USE [DW]">>,
       <<"GO">>,
       <<"/****** Object:  StoredProcedure [dbo].[" \o procedure_name(t) \o "] ******/">>,
       <<"SET ANSI_NULLS ON">>,
       <<"GO">>,
       <<"SET QUOTED_IDENTIFIER ON">>,
       <<"GO">>,
       <<"CREATE OR ALTER PROCEDURE [dbo].[" \o procedure_name(t) \o "]">>,
       <<"AS">>,
       <<"BEGIN">>,
       <<"    SET NOCOUNT ON;">> >>

script_update(t, s, cols) ==
    << <<"    -- Update existing records only if changes are detected">>,
       <<"    UPDATE target">>,
       <<"    SET ">>,
       Format("        ", set_statements(cols), ""),
       <<"    FROM ">>,
       <<"        " \o Str(t) \o " target">>,
       <<"    INNER JOIN ">>,
       <<"        " \o s \o " src">>,
       <<"    ON ">>,
       <<"        target." \o first_column_name(cols) \o " = src."
            \o first_column_name(cols)>>,
       <<"    WHERE ">>,
       Format("        ", where_conditions(cols), ";") >>

script_delete(t, s, cols) ==
    << <<"    -- Delete records that no longer exist in the source">>,
       <<"    DELETE target">>,
       <<"    FROM ">>,
       <<"        " \o Str(t)>>,
       <<"    WHERE NOT EXISTS (">>,
       <<"        SELECT 1">>,
       <<"        FROM " \o s>>,
       <<"        WHERE target." \o first_column_name(cols) \o " = src."
            \o first_column_name(cols)>>,
       <<"    );">> >>

script_insert(t, s, cols) ==
    << <<"    -- Insert new records">>,
       <<"    INSERT INTO " \o Str(t) \o " (">>,
       Format("        ", insert_columns(cols), ""),
       <<"    )">>,
       <<"    SELECT ">>,
       Format("        ", select_values(cols), ""),
       <<"    FROM ">>,
       <<"        " \o s>>,
       <<"    WHERE NOT EXISTS (">>,
       <<"        SELECT 1">>,
       <<"        FROM " \o Str(t) \o " target">>,
       <<"        WHERE target." \o first_column_name(cols) \o " = src."
            \o first_column_name(cols)>>,
       <<"    );">> >>

\* "END", "GO"
script_footer == << <<"END">>, <<"GO">> >>

script_list_insert_first(t, s, cols) ==
    script_header(t) \o script_insert(t, s, cols) \o script_delete(t, s, cols)
        \o script_update(t, s, cols) \o script_footer

\* the list bound to the local variable script
script_list(t, s, cols) ==
    script_header(t) \o script_update(t, s, cols) \o script_delete(t, s, cols)
        \o script_insert(t, s, cols) \o script_footer

\* the value of the return statement
generate_stored_procedure(t, s, cols) == JoinNewline(script_list(t, s, cols))

----------------------------------------------------------------------------
(* Inputs *)

\* the options of the column-type selectbox
ty_int              == kw_int
ty_uniqueidentifier == kw_uniqueidentifier
ty_nvarchar50       == kw_nvarchar \o <<"(","5","0",")">>
ty_date             == <<"d","a","t","e">>
ty_decimal          == kw_decimal \o <<"(","1","0",","," ","3",")">>
ty_bit              == kw_bit
TypeOptions ==
    {ty_int, ty_uniqueidentifier, ty_nvarchar50, ty_date, ty_decimal, ty_bit}

\* a type outside the selectbox, for a caller other than the form
ty_varchar50 == <<"v","a","r","c","h","a","r","(","5","0",")">>

ColumnTypes == TypeOptions \cup {ty_varchar50}

ColumnNames == {"Id", "Name"}

ColumnSpecs == [name : ColumnNames, type : ColumnTypes]

RECURSIVE SeqsUpTo(_, _)
SeqsUpTo(S, n) ==
    IF n = 0 THEN {<<>>}
    ELSE LET P == SeqsUpTo(S, n - 1)
         IN  P \cup {Append(p, x) : p \in {q \in P : Len(q) = n - 1}, x \in S}

\* the default of the target-table text input
DefaultTargetTable ==
    <<"[","d","b","o","]",".","[","t","b","l","_","d","w","_",
      "T","a","r","g","e","t","]">>

\* the default of the source-table text input
DefaultSourceTable == "[SRV-SQL].[DB].[dbo].[Source]"

TargetTables ==
    { DefaultTargetTable,
      <<"[","D","W","]",".","[","d","b","o","]",".","[","T","]">>,
      <<"[","d","b","o","]",".","T">>,
      <<"d","b","o",".","T">> }

SourceTables == {DefaultSourceTable, "Source"}

\* fragments of the type strings handed to default_value
TypeTokens ==
    { kw_int, kw_decimal, kw_bit, kw_uniqueidentifier, kw_nvarchar, ty_date,
      <<"(","5","0",")">>, <<"I","N","T">>, <<"b","i">>, <<"t">>, <<"i","n">>,
      <<"u","n","i","q","u","e">>, <<"i","d","e","n","t","i","f","i","e","r">>,
      <<"d","e","c","i">>, <<"m","a","l">>, <<" ">> }

RECURSIVE TokenStrings(_)
TokenStrings(n) ==
    IF n = 0 THEN {<<>>}
    ELSE LET P == TokenStrings(n - 1)
         IN  P \cup {p \o t : p \in P, t \in TypeTokens}

TypeStrings == TokenStrings(MaxTypeTokens)

----------------------------------------------------------------------------
(* The state machine: one call of default_value or of                      *)
(* generate_stored_procedure on inputs chosen by the caller                *)

InitDefaultValue ==
    /\ pc = "call_default_value"
    /\ data_type \in TypeStrings
    /\ target_table = <<>>
    /\ source_table = ""
    /\ columns = <<>>

InitGenerate ==
    /\ pc = "call_generate"
    /\ data_type = <<>>
    /\ target_table \in TargetTables
    /\ source_table \in SourceTables
    /\ columns \in SeqsUpTo(ColumnSpecs, MaxCols)

Init ==
    /\ InitDefaultValue \/ InitGenerate
    /\ dv_ret = "None"
    /\ script = <<>>
    /\ exc = "None"

CallDefaultValue ==
    /\ pc = "call_default_value"
    /\ dv_ret' = default_value(data_type)
    /\ pc' = "default_value_returned"
    /\ UNCHANGED <<data_type, target_table, source_table, columns, script, exc>>

GenerateRaises ==
    /\ pc = "call_generate"
    /\ NoColumns(columns)
    /\ exc' = RaisedException
    /\ pc' = "generate_raised"
    /\ UNCHANGED <<data_type, target_table, source_table, columns, dv_ret, script>>

GenerateReturns ==
    /\ pc = "call_generate"
    /\ ~NoColumns(columns)
    /\ script' = generate_stored_procedure(target_table, source_table, columns)
    /\ pc' = "generate_returned"
    /\ UNCHANGED <<data_type, target_table, source_table, columns, dv_ret, exc>>

Next == CallDefaultValue \/ GenerateRaises \/ GenerateReturns

Spec == Init /\ [][Next]_vars

----------------------------------------------------------------------------
(* Properties *)

\* number of columns of the call
NCols == Len(columns)

\* line i of the returned script, "<no line>" beyond its end
Line(i) == IF i \in DOMAIN script THEN script[i] ELSE "<no line>"

\* separator left at the end of the i-th of the joined lines of a clause
Sep(i, tail) == IF i < NCols THEN tail ELSE ""

\* the three literals a fallback can be
DefaultLiterals == {"'00000000-0000-0000-0000-000000000000'", "0", "''"}

\* the fallback literal of a type, as the default-value mapping states it
ExpectedDefault(t) ==
    IF Contains(kw_uniqueidentifier, t)
    THEN "'00000000-0000-0000-0000-000000000000'"
    ELSE IF Contains(kw_int, t) \/ Contains(kw_decimal, t) \/ Contains(kw_bit, t)
         THEN "0"
         ELSE "''"

\* position of the first occurrence of sub in s, 0 if there is none
FirstAt(s, sub) ==
    LET At(i) == SubSeq(s, i, i + Len(sub) - 1) = sub
        Hits  == {i \in 1..(Len(s) - Len(sub) + 1) : At(i)}
    IN  IF Hits = {} THEN 0 ELSE CHOOSE i \in Hits : \A j \in Hits : i <= j

\* s with every occurrence of sub cut out, scanning from the left
RECURSIVE RemoveAll(_, _)
RemoveAll(s, sub) ==
    LET i == FirstAt(s, sub)
    IN  IF i = 0 THEN s
        ELSE SubSeq(s, 1, i - 1)
                \o RemoveAll(SubSeq(s, i + Len(sub), Len(s)), sub)

\* positions of the script's lines, for a call with NCols columns
HeaderCommentAt  == 3
CreateAt         == 8
UpdateAt         == 13
SetAt(i)         == 14 + i
UpdateFromAt     == 16 + NCols
UpdateJoinAt     == 18 + NCols
OnAt             == 20 + NCols
WhereAt(i)       == 21 + NCols + i
DeleteAt         == 23 + 2 * NCols
DeleteFromAt     == 25 + 2 * NCols
DeleteSubFromAt  == 28 + 2 * NCols
DeleteSubWhereAt == 29 + 2 * NCols
InsertAt         == 32 + 2 * NCols
InsertColAt(i)   == 32 + 2 * NCols + i
InsertCloseAt    == 33 + 3 * NCols
SelectAt         == 34 + 3 * NCols
SelectValAt(i)   == 34 + 3 * NCols + i
InsertFromAt     == 35 + 4 * NCols
InsertSrcAt      == 36 + 4 * NCols
InsertSubFromAt  == 39 + 4 * NCols
InsertSubWhereAt == 40 + 4 * NCols
EndAt            == 42 + 4 * NCols
LastAt           == 43 + 4 * NCols

\* C1 (as stated): a call with an empty columns sequence raises
\* ConfigurationError and returns no script.
C1_RaisesConfigurationError ==
    (pc \in {"generate_returned", "generate_raised"} /\ columns = <<>>)
        => (pc = "generate_raised" /\ exc = "ConfigurationError" /\ script = <<>>)

\* C1 (amended): a call with an empty columns sequence, for any target and
\* source table, raises ValueError and returns no script, not even a partial one.
C1_RaisesValueError ==
    (pc \in {"generate_returned", "generate_raised"} /\ columns = <<>>)
        => (pc = "generate_raised" /\ exc = "ValueError" /\ script = <<>>)

C1_Witness ==
    /\ pc = "generate_raised"
    /\ columns = <<>>
    /\ target_table = DefaultTargetTable
    /\ source_table = "Source"

\* C2: default_value(t) is the nil-GUID literal iff t contains
\* "uniqueidentifier"; otherwise it is 0 iff t contains "int", "decimal" or
\* "bit"; otherwise it is ''. It always returns one of the three literals.
C2_DefaultValueMapping ==
    pc = "default_value_returned" =>
        LET t    == data_type
            guid == Contains(kw_uniqueidentifier, t)
            num  == Contains(kw_int, t) \/ Contains(kw_decimal, t)
                        \/ Contains(kw_bit, t)
        IN  /\ dv_ret \in DefaultLiterals
            /\ (dv_ret = "'00000000-0000-0000-0000-000000000000'") <=> guid
            /\ ~guid => ((dv_ret = "0") <=> num)
            /\ (~guid /\ ~num) => dv_ret = "''"

C2_Witness ==
    /\ pc = "default_value_returned"
    /\ data_type = <<"b","i","t">>
    /\ dv_ret = "0"

\* C3: the key column is the name k of the first element of columns, and
\* the condition target.k = src.k is the one of the UPDATE's join, of the
\* DELETE's NOT EXISTS subquery and of the INSERT's NOT EXISTS subquery.
C3_KeyIsFirstColumn ==
    pc = "generate_returned" =>
        LET k    == columns[1].name
            cond == "target." \o k \o " = src." \o k
        IN  /\ Line(OnAt - 1) = "    ON "
            /\ Line(OnAt) = "        " \o cond
            /\ Line(DeleteSubWhereAt) = "        WHERE " \o cond
            /\ Line(InsertSubWhereAt) = "        WHERE " \o cond

C3_Witness ==
    /\ pc = "generate_returned"
    /\ Len(columns) = 2
    /\ columns[1].name = "Name"
    /\ columns[2].name = "Id"
    /\ Line(OnAt) = "        target.Name = src.Name"
    /\ Line(DeleteSubWhereAt) = "        WHERE target.Name = src.Name"
    /\ Line(InsertSubWhereAt) = "        WHERE target.Name = src.Name"

\* C4: the script is, in this order: USE, GO, the header comment naming the
\* procedure, SET ANSI_NULLS, SET QUOTED_IDENTIFIER, CREATE OR ALTER
\* PROCEDURE with BEGIN, exactly one UPDATE, then exactly one DELETE, then
\* exactly one INSERT, then END and a trailing GO.
C4_SectionOrder ==
    pc = "generate_returned" =>
        LET At(l) == {i \in DOMAIN script : script[i] = l}
            name  == procedure_name(target_table)
        IN  /\ Len(script) = LastAt
            /\ Line(1) = "USE [DW]"
            /\ Line(2) = "GO"
            /\ Line(HeaderCommentAt)
                 = "/****** Object:  StoredProcedure [dbo].[" \o name \o "] ******/"
            /\ Line(4) = "SET ANSI_NULLS ON"
            /\ Line(5) = "GO"
            /\ Line(6) = "SET QUOTED_IDENTIFIER ON"
            /\ Line(7) = "GO"
            /\ Line(CreateAt) = "CREATE OR ALTER PROCEDURE [dbo].[" \o name \o "]"
            /\ Line(9) = "AS"
            /\ Line(10) = "BEGIN"
            /\ At("    UPDATE target") = {UpdateAt}
            /\ At("    DELETE target") = {DeleteAt}
            /\ At("    INSERT INTO " \o Str(target_table) \o " (") = {InsertAt}
            /\ 10 < UpdateAt /\ UpdateAt < DeleteAt /\ DeleteAt < InsertAt
            /\ InsertAt < EndAt
            /\ At("END") = {EndAt}
            /\ Line(LastAt) = "GO"

C4_Witness ==
    /\ pc = "generate_returned"
    /\ Len(columns) = 2
    /\ Line(13) = "    UPDATE target"
    /\ Line(27) = "    DELETE target"
    /\ Line(36) = "    INSERT INTO [dbo].[tbl_dw_Target] ("
    /\ Line(50) = "END"
    /\ Line(51) = "GO"

\* C5: between "INSERT INTO .. (" and ")" there are exactly len(columns)
\* entries, the column names in input order; between "SELECT" and "FROM"
\* there are exactly len(columns) entries, the i-th being the coalesced
\* source value of the column the i-th INSERT entry names.
C5_InsertSelectAligned ==
    pc = "generate_returned" =>
        /\ Line(InsertAt) = "    INSERT INTO " \o Str(target_table) \o " ("
        /\ Line(InsertCloseAt) = "    )"
        /\ Line(SelectAt) = "    SELECT "
        /\ Line(InsertFromAt) = "    FROM "
        /\ \A i \in 1..NCols :
              LET nm == columns[i].name
              IN  /\ Line(InsertColAt(i)) = "        " \o nm \o Sep(i, ",")
                  /\ \E f \in {"ISNULL", "COALESCE"}, d \in DefaultLiterals :
                        Line(SelectValAt(i))
                          = "        " \o f \o "(src." \o nm \o ", " \o d \o ")"
                                \o Sep(i, ",")

C5_Witness ==
    /\ pc = "generate_returned"
    /\ columns = << [name |-> "Id", type |-> ty_int],
                    [name |-> "Name", type |-> ty_nvarchar50] >>
    /\ Line(InsertColAt(1)) = "        Id,"
    /\ Line(InsertColAt(2)) = "        Name"
    /\ Line(SelectValAt(1)) = "        COALESCE(src.Id, 0),"
    /\ Line(SelectValAt(2)) = "        COALESCE(src.Name, '')"

\* C6: a column whose type contains "uniqueidentifier" has the SET entry
\* target.c = ISNULL(src.c, nil GUID) and the SELECT entry
\* ISNULL(src.c, nil GUID); any other column has COALESCE(src.c, d) in both,
\* d being the default of its type. So both entries of a column use the
\* same function and the same fallback.
C6_GuidUsesIsNull ==
    pc = "generate_returned" =>
        \A i \in 1..NCols :
            LET nm == columns[i].name
                ty == columns[i].type
                value == IF Contains(kw_uniqueidentifier, ty)
                         THEN "ISNULL(src." \o nm
                                \o ", '00000000-0000-0000-0000-000000000000')"
                         ELSE "COALESCE(src." \o nm \o ", "
                                \o ExpectedDefault(ty) \o ")"
            IN  /\ Line(SetAt(i))
                     = "        target." \o nm \o " = " \o value \o Sep(i, ",")
                /\ Line(SelectValAt(i)) = "        " \o value \o Sep(i, ",")

C6_Witness ==
    /\ pc = "generate_returned"
    /\ columns = << [name |-> "Id", type |-> ty_uniqueidentifier],
                    [name |-> "Name", type |-> ty_date] >>
    /\ Line(SetAt(1))
         = "        target.Id = ISNULL(src.Id, '00000000-0000-0000-0000-000000000000'),"
    /\ Line(SelectValAt(1))
         = "        ISNULL(src.Id, '00000000-0000-0000-0000-000000000000'),"
    /\ Line(SetAt(2)) = "        target.Name = COALESCE(src.Name, '')"
    /\ Line(SelectValAt(2)) = "        COALESCE(src.Name, '')"

\* the WHERE-clause comparisons of column i with the qualifier q appended
Comparisons(i, q) ==
    { "        COALESCE(target." \o columns[i].name \o ", " \o d1
        \o ") <> COALESCE(src." \o columns[i].name \o ", " \o d2 \o ")"
        \o q \o Sep(i, " OR") \o (IF i = NCols THEN ";" ELSE "")
      : d1 \in DefaultLiterals, d2 \in DefaultLiterals }

\* C7: the WHERE-clause comparison of a column ends with
\* COLLATE DATABASE_DEFAULT iff the column's type contains "nvarchar".
C7_CollateIffNvarchar ==
    pc = "generate_returned" =>
        \A i \in 1..NCols :
            /\ Line(WhereAt(i)) \in
                  Comparisons(i, " COLLATE DATABASE_DEFAULT") \cup Comparisons(i, "")
            /\ Line(WhereAt(i)) \in Comparisons(i, " COLLATE DATABASE_DEFAULT")
                  <=> Contains(kw_nvarchar, columns[i].type)

C7_Witness ==
    /\ pc = "generate_returned"
    /\ columns = << [name |-> "Name", type |-> ty_nvarchar50],
                    [name |-> "Id", type |-> ty_varchar50] >>
    /\ Line(WhereAt(1))
         = "        COALESCE(target.Name, '') <> COALESCE(src.Name, '') COLLATE DATABASE_DEFAULT OR"
    /\ Line(WhereAt(2)) = "        COALESCE(target.Id, '') <> COALESCE(src.Id, '');"

\* the procedure name made by cutting dbo and then "]" out of the target table
StrippedName(dbo) ==
    "stp_sync_" \o Str(RemoveAll(RemoveAll(target_table, dbo), <<"]">>))

\* the header comment and the CREATE line both name the procedure nm
NamedInHeaderAndCreate(nm) ==
    /\ Line(HeaderCommentAt)
         = "/****** Object:  StoredProcedure [dbo].[" \o nm \o "] ******/"
    /\ Line(CreateAt) = "CREATE OR ALTER PROCEDURE [dbo].[" \o nm \o "]"

\* C8 (as stated): the procedure name of the header comment and of the
\* CREATE line is stp_sync_ followed by the target table with every
\* "[dbo]." and every "]" removed.
C8_StripsDboDot ==
    pc = "generate_returned" =>
        NamedInHeaderAndCreate(StrippedName(<<"[","d","b","o","]",".">>))

\* C8 (amended): the procedure name of the header comment and of the CREATE
\* line is stp_sync_ followed by the target table with every "[dbo].["
\* removed and then every "]" removed.
C8_StripsDboDotBracket ==
    pc = "generate_returned" =>
        NamedInHeaderAndCreate(StrippedName(<<"[","d","b","o","]",".","[">>))

C8_Witness ==
    /\ pc = "generate_returned"
    /\ target_table = DefaultTargetTable
    /\ Line(HeaderCommentAt)
         = "/****** Object:  StoredProcedure [dbo].[stp_sync_tbl_dw_Target] ******/"
    /\ Line(CreateAt) = "CREATE OR ALTER PROCEDURE [dbo].[stp_sync_tbl_dw_Target]"

\* some FROM/JOIN entry among the lines at the positions ps binds alias a
\* to table t
Binds(ps, t, a) ==
    \E i \in ps : Line(i) \in {"        " \o t \o " " \o a,
                               "        FROM " \o t \o " " \o a}

\* C9: in each of the UPDATE, the DELETE and the INSERT, the aliases target
\* and src of the qualified column references are bound by a FROM/JOIN
\* entry of that statement (its subquery included): target to the target
\* table, src to the source table.
C9_AliasesBound ==
    pc = "generate_returned" =>
        LET upd == {UpdateFromAt, UpdateJoinAt}
            del == {DeleteFromAt, DeleteSubFromAt}
            ins == {InsertSrcAt, InsertSubFromAt}
        IN  /\ Binds(upd, Str(target_table), "target")
            /\ Binds(upd, source_table, "src")
            /\ Binds(del, Str(target_table), "target")
            /\ Binds(del, source_table, "src")
            /\ Binds(ins, Str(target_table), "target")
            /\ Binds(ins, source_table, "src")

\* C10: the WHERE-clause predicate of a column c is
\* COALESCE(target.c, d) <> COALESCE(src.c, d), with the same literal d, the
\* default of the column's type, on both sides (the nil GUID for a
\* uniqueidentifier column), possibly followed by the collation qualifier.
C10_SameDefaultBothSides ==
    pc = "generate_returned" =>
        \A i \in 1..NCols :
            LET nm == columns[i].name
                d  == ExpectedDefault(columns[i].type)
            IN  \E q \in {"", " COLLATE DATABASE_DEFAULT"} :
                    Line(WhereAt(i))
                      = "        COALESCE(target." \o nm \o ", " \o d
                            \o ") <> COALESCE(src." \o nm \o ", " \o d \o ")"
                            \o q \o Sep(i, " OR")
                            \o (IF i = NCols THEN ";" ELSE "")

C10_Witness ==
    /\ pc = "generate_returned"
    /\ columns = << [name |-> "Id", type |-> ty_uniqueidentifier],
                    [name |-> "Name", type |-> ty_bit] >>
    /\ Line(WhereAt(1))
         = "        COALESCE(target.Id, '00000000-0000-0000-0000-000000000000') <> COALESCE(src.Id, '00000000-0000-0000-0000-000000000000') OR"
    /\ Line(WhereAt(2)) = "        COALESCE(target.Name, 0) <> COALESCE(src.Name, 0);"

====
